---- MODULE Spec2Model ----
(***************************************************************************)
(* Marker/partition model and export pipeline of the audio splitter.       *)
(*                                                                         *)
(* Times are exact integers in milliseconds (1000 = 1.0 s), so the Python  *)
(* float comparison abs(a - b) < 0.01 is the integer comparison            *)
(* Abs(a - b) < 10.  Python's None is the string NoneValue, booleans       *)
(* returned by the methods are the strings "True" and "False", and a       *)
(* raised exception is the exception's name.                               *)
(***************************************************************************)
EXTENDS Integers, Sequences, FiniteSets, TLC

VARIABLES
    markers,          \* MarkerManager.markers
    excluded_splits,  \* MarkerManager.excluded_splits
    audio_filename,   \* MarkerManager.audio_filename
    audio_duration,   \* MarkerManager.audio_duration
    op,               \* name of the MarkerManager method called last
    ret,              \* what that call returned (or the exception it raised)
    audio_data,       \* AudioProcessor.audio_data: NoneValue or "loaded"
    duration,         \* AudioProcessor.duration
    channels,         \* AudioProcessor.channels
    call,             \* the arguments of the export_splits call under way
    pc,               \* "ready" before export_splits runs, "done" after it
    folder,           \* the output folder: exists, files, leftover temporaries
    writes,           \* the output files written by the call, in order
    result,           \* the (success, message) the AudioProcessor method returned
    concat_buffer,    \* the blocks of the buffer concat_splits wrote, in order
    silent_regions,   \* the (start, end) list detect_silence returned
    message_box,      \* the message box the application showed last
    waveform_widget,  \* WaveformWidget: markers, excluded_splits, duration,
                      \* dragging_marker (<<>>: None)
    json_file,        \* the marker file on disk: <<>> or <<its document>>
    saved_state       \* the manager's fields when json_file was written (<<>>: never)

mgr_vars == <<markers, excluded_splits, audio_filename, audio_duration, op, ret>>

proc_vars == <<audio_data, duration, channels, call, pc, folder, writes, result,
               concat_buffer, silent_regions>>

app_vars == <<message_box, waveform_widget>>

disk_vars == <<json_file, saved_state>>

vars == <<mgr_vars, proc_vars, disk_vars, app_vars>>

(***************************************************************************)
(* Bounds of the model                                                     *)
(***************************************************************************)
MaxMarkers == 3

MaxExcluded == 1

\* most markers handed to export_splits (11 splits: two-digit numbering)
MaxExportMarkers == 10

\* most indices in the exclusion list handed to export_splits
MaxExportExcluded == 2

\* most RMS frames of the audio handed to detect_silence
MaxFrames == 5

(***************************************************************************)
(* Program constants                                                       *)
(***************************************************************************)
\* tolerance = 0.01 in add_marker (10 ms)
ADD_TOLERANCE == 10

\* tolerance: float = 0.1, the default of remove_marker and move_marker
DEFAULT_TOLERANCE == 100

\* tolerance=0.01, what the application passes to remove_marker / move_marker
APP_TOLERANCE == 10

NoneValue == "None"

(***************************************************************************)
(* Helpers: Python built-ins                                               *)
(***************************************************************************)
Abs(x) == IF x < 0 THEN -x ELSE x

Range(s) == {s[i] : i \in DOMAIN s}

\* list.insert into an ascending list, after the elements not greater than x
InsertSorted(s, x) ==
    LET k == Cardinality({i \in DOMAIN s : s[i] <= x})
    IN  SubSeq(s, 1, k) \o <<x>> \o SubSeq(s, k + 1, Len(s))

\* a sort that is never run: the list is left in insertion order
sorted_not_run(s) == s

RECURSIVE sorted(_)
\* sorted(list) / list.sort() on a list of numbers
sorted(s) ==
    IF s = <<>> THEN <<>>
    ELSE InsertSorted(sorted(SubSeq(s, 1, Len(s) - 1)), s[Len(s)])

\* index of the first element of m within tolerance of time, 0 when none:
\* the loop "for x in self.markers: if abs(x - time) < tolerance"
FirstWithin(m, time, tolerance) ==
    LET hits == {i \in DOMAIN m : Abs(m[i] - time) < tolerance}
    IN  IF hits = {} THEN 0
        ELSE CHOOSE i \in hits : \A j \in hits : i <= j

\* list.remove(v): drops the first element equal to v
ListRemove(s, v) ==
    LET hits == {i \in DOMAIN s : s[i] = v}
        k == CHOOSE i \in hits : \A j \in hits : i <= j
    IN  SubSeq(s, 1, k - 1) \o SubSeq(s, k + 1, Len(s))

\* splits[split_index] of a Python list: a negative index counts from the end,
\* an index outside -len..len-1 raises IndexError (reported as <<>>)
PyIndex(s, i) ==
    IF 0 <= i /\ i < Len(s) THEN <<s[i + 1]>>
    ELSE IF i < 0 /\ -Len(s) <= i THEN <<s[Len(s) + i + 1]>>
    ELSE <<>>

\* "x in list"
In(x, s) == \E i \in DOMAIN s : s[i] = x

(***************************************************************************)
(* Input domains                                                           *)
(***************************************************************************)
\* timestamps handed to the methods: a pair closer than 10 ms (0/5), a pair
\* closer than 100 ms but not 10 ms (5/100), a pair exactly 100 ms apart
\* (0/100); 100 lies beyond every duration
TimeGrid == {0, 5, 100}

\* the same with a pair exactly 10 ms apart (0/10), for the manager that
\* is only edited
EditGrid == {0, 5, 10, 100}

Tolerances == {APP_TOLERANCE, DEFAULT_TOLERANCE}

Durations == {0, 5}

Filenames == {"a.wav"}

\* marker lists handed to set_markers: empty, unsorted, with a duplicate
MarkerLists == {<<>>, <<100, 5>>, <<5, 5>>, <<100, 0, 5>>}

\* (start, end) lists handed to set_excluded_splits_by_ranges by the view
RangeLists == {<<>>, <<<<0, 5>>>>, <<<<5, 100>>, <<0, 5>>>>}

\* indices handed to toggle_split_exclusion
IndexGrid == -1..(MaxMarkers + 1)

\* index lists handed to set_excluded_splits_by_indices
IndexLists == {<<>>, <<0>>, <<1, 0>>, <<0, 0>>, <<-1>>, <<MaxMarkers + 1>>}

\* a marker file: the fields load_from_json reads
Doc(readable, filename, markers_ok, m, d, kind, excluded) ==
    [readable |-> readable, audio_filename |-> filename,
     markers_ok |-> markers_ok, markers |-> m, audio_duration |-> d,
     excluded_kind |-> kind, excluded |-> excluded]

\* contents of the marker files load_from_json is given: an unreadable file,
\* files without, with a legacy, a malformed and a pair-form "excluded_splits",
\* a file without "audio_filename", and a file whose "markers" cannot be sorted
JsonDocs ==
    { Doc(FALSE, NoneValue, TRUE, <<>>, 0, "absent", <<>>),
      Doc(TRUE, "a.wav", TRUE, <<100, 5>>, 5, "absent", <<>>),
      Doc(TRUE, NoneValue, TRUE, <<5>>, 0, "legacy", <<>>),
      Doc(TRUE, "a.wav", TRUE, <<>>, 5, "malformed", <<>>),
      Doc(TRUE, "a.wav", TRUE, <<5>>, 5, "pairs", <<<<0, 5>>>>),
      Doc(TRUE, "a.wav", TRUE, <<100, 5>>, 5, "pairs", <<<<5, 100>>, <<0, 5>>>>),
      Doc(TRUE, "a.wav", TRUE, <<0>>, 5, "pairs", <<>>),
      Doc(TRUE, NoneValue, FALSE, <<>>, 5, "absent", <<>>) }

(***************************************************************************)
(* MarkerManager                                                           *)
(***************************************************************************)
\* _get_splits without its last statement, the split from the last marker to
\* the end
_get_splits_no_tail(m, total) ==
    IF m = <<>> THEN <<>>
    ELSE <<<<0, m[1]>>>>
         \o [i \in 1..(Len(m) - 1) |-> <<m[i], m[i + 1]>>]

\* MarkerManager._get_splits (and WaveformWidget._get_splits, the same code
\* over the widget's markers and duration)
_get_splits(m, total) ==
    IF m = <<>> THEN <<>>
    ELSE <<<<0, m[1]>>>>
         \o [i \in 1..(Len(m) - 1) |-> <<m[i], m[i + 1]>>]
         \o <<<<m[Len(m)], total>>>>

\* add_marker without the duplicate check
add_marker_no_check(time) ==
    /\ Len(markers) < MaxMarkers
    /\ op' = "add_marker"
    /\ markers' = sorted(Append(markers, time))
    /\ ret' = "True"
    /\ UNCHANGED <<excluded_splits, audio_filename, audio_duration>>
    /\ UNCHANGED <<proc_vars, disk_vars, app_vars>>

\* add_marker comparing with the 0.1 s tolerance of the other methods
add_marker_wide(time) ==
    /\ FirstWithin(markers, time, DEFAULT_TOLERANCE) # 0 \/ Len(markers) < MaxMarkers
    /\ op' = "add_marker"
    /\ IF FirstWithin(markers, time, DEFAULT_TOLERANCE) # 0
       THEN /\ ret' = "False"
            /\ UNCHANGED markers
       ELSE /\ markers' = sorted(Append(markers, time))
            /\ ret' = "True"
    /\ UNCHANGED <<excluded_splits, audio_filename, audio_duration>>
    /\ UNCHANGED <<proc_vars, disk_vars, app_vars>>

add_marker(time) ==
    /\ FirstWithin(markers, time, ADD_TOLERANCE) # 0 \/ Len(markers) < MaxMarkers
    /\ op' = "add_marker"
    /\ IF FirstWithin(markers, time, ADD_TOLERANCE) # 0
       THEN /\ ret' = "False"
            /\ UNCHANGED markers
       ELSE /\ markers' = sorted(Append(markers, time))
            /\ ret' = "True"
    /\ UNCHANGED <<excluded_splits, audio_filename, audio_duration>>
    /\ UNCHANGED <<proc_vars, disk_vars, app_vars>>

\* remove_marker without the early return: every marker within tolerance goes
remove_marker_all(time, tolerance) ==
    /\ op' = "remove_marker"
    /\ IF FirstWithin(markers, time, tolerance) # 0
       THEN /\ markers' = SelectSeq(markers, LAMBDA x : ~(Abs(x - time) < tolerance))
            /\ ret' = "True"
       ELSE /\ ret' = "False"
            /\ UNCHANGED markers
    /\ UNCHANGED <<excluded_splits, audio_filename, audio_duration>>
    /\ UNCHANGED <<proc_vars, disk_vars, app_vars>>

remove_marker(time, tolerance) ==
    /\ op' = "remove_marker"
    /\ IF FirstWithin(markers, time, tolerance) # 0
       THEN /\ markers' = ListRemove(markers, markers[FirstWithin(markers, time, tolerance)])
            /\ ret' = "True"
       ELSE /\ ret' = "False"
            /\ UNCHANGED markers
    /\ UNCHANGED <<excluded_splits, audio_filename, audio_duration>>
    /\ UNCHANGED <<proc_vars, disk_vars, app_vars>>

\* move_marker merging the moved marker into a marker already at new_time
move_marker_merge(old_time, new_time, tolerance) ==
    /\ op' = "move_marker"
    /\ IF FirstWithin(markers, old_time, tolerance) # 0
       THEN LET i == FirstWithin(markers, old_time, tolerance)
                rest == SubSeq(markers, 1, i - 1) \o SubSeq(markers, i + 1, Len(markers))
            IN  /\ markers' = IF In(new_time, rest) THEN rest
                               ELSE sorted(Append(rest, new_time))
                /\ ret' = "True"
       ELSE /\ ret' = "False"
            /\ UNCHANGED markers
    /\ UNCHANGED <<excluded_splits, audio_filename, audio_duration>>
    /\ UNCHANGED <<proc_vars, disk_vars, app_vars>>

move_marker(old_time, new_time, tolerance) ==
    /\ op' = "move_marker"
    /\ IF FirstWithin(markers, old_time, tolerance) # 0
       THEN /\ markers' = sorted([markers EXCEPT ![FirstWithin(markers, old_time, tolerance)] = new_time])
            /\ ret' = "True"
       ELSE /\ ret' = "False"
            /\ UNCHANGED markers
    /\ UNCHANGED <<excluded_splits, audio_filename, audio_duration>>
    /\ UNCHANGED <<proc_vars, disk_vars, app_vars>>

\* clear_markers resetting the markers only
clear_markers_only ==
    /\ op' = "clear_markers"
    /\ markers' = <<>>
    /\ ret' = NoneValue
    /\ UNCHANGED <<excluded_splits, audio_filename, audio_duration>>
    /\ UNCHANGED <<proc_vars, disk_vars, app_vars>>

clear_markers ==
    /\ op' = "clear_markers"
    /\ markers' = <<>>
    /\ excluded_splits' = <<>>
    /\ ret' = NoneValue
    /\ UNCHANGED <<audio_filename, audio_duration>>
    /\ UNCHANGED <<proc_vars, disk_vars, app_vars>>

\* set_markers dropping the stored pairs that are no split of the new markers
set_markers_purging(new_markers) ==
    /\ op' = "set_markers"
    /\ markers' = sorted(new_markers)
    /\ excluded_splits' =
          SelectSeq(excluded_splits,
                    LAMBDA pair : In(pair, _get_splits(sorted(new_markers),
                                                       audio_duration)))
    /\ ret' = NoneValue
    /\ UNCHANGED <<audio_filename, audio_duration>>
    /\ UNCHANGED <<proc_vars, disk_vars, app_vars>>

\* set_markers(markers)
set_markers(new_markers) ==
    /\ op' = "set_markers"
    /\ markers' = sorted(new_markers)
    /\ ret' = NoneValue
    /\ UNCHANGED <<excluded_splits, audio_filename, audio_duration>>
    /\ UNCHANGED <<proc_vars, disk_vars, app_vars>>

toggle_split_exclusion(split_index) ==
    LET splits == _get_splits(markers, audio_duration)
        hit == PyIndex(splits, split_index)
    IN  /\ op' = "toggle_split_exclusion"
        /\ IF split_index >= Len(splits)
           THEN /\ ret' = "False"
                /\ UNCHANGED excluded_splits
           ELSE IF hit = <<>>
           THEN /\ ret' = "IndexError"
                /\ UNCHANGED excluded_splits
           ELSE IF In(hit[1], excluded_splits)
           THEN /\ excluded_splits' = ListRemove(excluded_splits, hit[1])
                /\ ret' = "False"
           ELSE /\ Len(excluded_splits) < MaxExcluded
                /\ excluded_splits' = Append(excluded_splits, hit[1])
                /\ ret' = "True"
        /\ UNCHANGED <<markers, audio_filename, audio_duration>>
        /\ UNCHANGED <<proc_vars, disk_vars, app_vars>>

\* the value is_split_excluded(split_index) returns (or the exception raised)
is_split_excluded(split_index) ==
    LET splits == _get_splits(markers, audio_duration)
        hit == PyIndex(splits, split_index)
    IN  IF split_index >= Len(splits) THEN "False"
        ELSE IF hit = <<>> THEN "IndexError"
        ELSE IF In(hit[1], excluded_splits) THEN "True" ELSE "False"

\* get_excluded_splits matching a stored pair by its start time alone
get_excluded_splits_by_start ==
    LET splits == _get_splits(markers, audio_duration)
    IN  SelectSeq([i \in 1..Len(splits) |-> i - 1],
                  LAMBDA i : \E j \in DOMAIN excluded_splits :
                                 excluded_splits[j][1] = splits[i + 1][1])

\* the ascending list of indices get_excluded_splits() returns
get_excluded_splits ==
    LET splits == _get_splits(markers, audio_duration)
    IN  SelectSeq([i \in 1..Len(splits) |-> i - 1],
                  LAMBDA i : In(splits[i + 1], excluded_splits))

set_excluded_splits_by_indices(excluded_indices) ==
    LET splits == _get_splits(markers, audio_duration)
        kept == SelectSeq(excluded_indices, LAMBDA idx : idx < Len(splits))
    IN  /\ op' = "set_excluded_splits_by_indices"
        /\ IF \E j \in DOMAIN kept : PyIndex(splits, kept[j]) = <<>>
           THEN \* splits[idx] raises at the first such idx, after the list was
                \* reset and the earlier indices were appended
                LET bad == CHOOSE j \in DOMAIN kept :
                               /\ PyIndex(splits, kept[j]) = <<>>
                               /\ \A h \in 1..(j - 1) : PyIndex(splits, kept[h]) # <<>>
                IN  /\ excluded_splits' = [j \in 1..(bad - 1) |-> PyIndex(splits, kept[j])[1]]
                    /\ ret' = "IndexError"
           ELSE /\ excluded_splits' = [j \in DOMAIN kept |-> PyIndex(splits, kept[j])[1]]
                /\ ret' = NoneValue
        /\ UNCHANGED <<markers, audio_filename, audio_duration>>
        /\ UNCHANGED <<proc_vars, disk_vars, app_vars>>

set_excluded_splits_by_ranges(excluded_ranges) ==
    /\ op' = "set_excluded_splits_by_ranges"
    /\ excluded_splits' = excluded_ranges
    /\ ret' = NoneValue
    /\ UNCHANGED <<markers, audio_filename, audio_duration>>
    /\ UNCHANGED <<proc_vars, disk_vars, app_vars>>

\* what load_from_json leaves in the manager and returns, on a file whose
\* content is doc.  doc.readable is FALSE when open() or json.load() raises or
\* the document is not an object; a field that is absent carries the default
\* data.get() supplies.
load_from_json_outcome(doc) ==
    LET before == [markers |-> markers, excluded_splits |-> excluded_splits,
                   audio_filename |-> audio_filename,
                   audio_duration |-> audio_duration, ret |-> "False"]
    IN  IF ~doc.readable THEN before
        ELSE IF ~doc.markers_ok
        THEN \* sorted() raises: the filename is already replaced
             [before EXCEPT !.audio_filename = doc.audio_filename]
        ELSE LET read == [before EXCEPT !.audio_filename = doc.audio_filename,
                                        !.markers = sorted(doc.markers),
                                        !.audio_duration = doc.audio_duration]
             IN  IF doc.excluded_kind = "pairs" /\ doc.excluded # <<>>
                 THEN [read EXCEPT !.excluded_splits = doc.excluded,
                                   !.ret = "True"]
                 ELSE IF doc.excluded_kind = "malformed"
                 THEN \* the first element is a list, an element does not
                      \* unpack into (start, end): ValueError
                      read
                 ELSE [read EXCEPT !.excluded_splits = <<>>, !.ret = "True"]

\* load_from_json leaving the exclusions alone when the file has none in the
\* pair form
load_from_json_keeps_exclusions(doc) ==
    /\ op' = "load_from_json"
    /\ UNCHANGED <<proc_vars, disk_vars, app_vars>>
    /\ IF ~doc.readable
       THEN /\ ret' = "False"
            /\ UNCHANGED <<markers, excluded_splits, audio_filename, audio_duration>>
       ELSE /\ audio_filename' = doc.audio_filename
            /\ IF ~doc.markers_ok
               THEN \* sorted() raises: the filename is already replaced
                    /\ ret' = "False"
                    /\ UNCHANGED <<markers, excluded_splits, audio_duration>>
               ELSE /\ markers' = sorted(doc.markers)
                    /\ audio_duration' = doc.audio_duration
                    /\ IF doc.excluded_kind = "pairs" /\ doc.excluded # <<>>
                       THEN /\ excluded_splits' = doc.excluded
                            /\ ret' = "True"
                       ELSE IF doc.excluded_kind = "malformed"
                       THEN \* the first element is a list, an element does
                            \* not unpack into (start, end): ValueError
                            /\ ret' = "False"
                            /\ UNCHANGED excluded_splits
                       ELSE /\ UNCHANGED excluded_splits
                            /\ ret' = "True"

\* load_from_json(filepath)
load_from_json(doc) ==
    /\ op' = "load_from_json"
    /\ ret' = load_from_json_outcome(doc).ret
    /\ markers' = load_from_json_outcome(doc).markers
    /\ excluded_splits' = load_from_json_outcome(doc).excluded_splits
    /\ audio_filename' = load_from_json_outcome(doc).audio_filename
    /\ audio_duration' = load_from_json_outcome(doc).audio_duration
    /\ UNCHANGED <<proc_vars, disk_vars, app_vars>>

\* save_to_json writing the exclusions in the legacy form, as split indices
save_to_json_indices(writable) ==
    /\ op' = "save_to_json"
    /\ IF writable
       THEN /\ json_file' = <<Doc(TRUE, audio_filename, TRUE, markers,
                                  audio_duration, "legacy", <<>>)>>
            /\ saved_state' = <<markers, excluded_splits, audio_filename,
                                audio_duration>>
            /\ ret' = "True"
       ELSE /\ ret' = "False"
            /\ UNCHANGED disk_vars
    /\ UNCHANGED <<markers, excluded_splits, audio_filename, audio_duration>>
    /\ UNCHANGED <<proc_vars, app_vars>>

\* save_to_json(filepath); writable is FALSE when open(filepath, 'w') raises.
\* The document written carries the four fields, the exclusions as a list of
\* [start, end] lists.
save_to_json(writable) ==
    /\ op' = "save_to_json"
    /\ IF writable
       THEN LET excluded_splits_serialized ==
                    [i \in DOMAIN excluded_splits |->
                        <<excluded_splits[i][1], excluded_splits[i][2]>>]
            IN  /\ json_file' = <<Doc(TRUE, audio_filename, TRUE, markers,
                                      audio_duration, "pairs",
                                      excluded_splits_serialized)>>
                /\ saved_state' = <<markers, excluded_splits, audio_filename,
                                    audio_duration>>
                /\ ret' = "True"
       ELSE /\ ret' = "False"
            /\ UNCHANGED disk_vars
    /\ UNCHANGED <<markers, excluded_splits, audio_filename, audio_duration>>
    /\ UNCHANGED <<proc_vars, app_vars>>

\* MarkerManager(): a fresh manager takes the place of the current one
__init__ ==
    /\ op' = "__init__"
    /\ markers' = <<>>
    /\ excluded_splits' = <<>>
    /\ audio_filename' = NoneValue
    /\ audio_duration' = 0
    /\ ret' = NoneValue
    /\ UNCHANGED <<proc_vars, disk_vars, app_vars>>

set_audio_filename(filename) ==
    /\ op' = "set_audio_filename"
    /\ audio_filename' = filename
    /\ ret' = NoneValue
    /\ UNCHANGED <<markers, excluded_splits, audio_duration>>
    /\ UNCHANGED <<proc_vars, disk_vars, app_vars>>

set_audio_duration(d) ==
    /\ op' = "set_audio_duration"
    /\ audio_duration' = d
    /\ ret' = NoneValue
    /\ UNCHANGED <<markers, excluded_splits, audio_filename>>
    /\ UNCHANGED <<proc_vars, disk_vars, app_vars>>

(***************************************************************************)
(* AudioProcessor.load_audio                                               *)
(***************************************************************************)
\* the files load_audio is given: one librosa cannot open (missing, or not
\* audio), and two recordings
AudioFiles ==
    { [ok |-> FALSE, name |-> "x.txt", duration |-> 0, channels |-> 0],
      [ok |-> TRUE, name |-> "a.wav", duration |-> 50, channels |-> 1],
      [ok |-> TRUE, name |-> "b.wav", duration |-> 200, channels |-> 2] }

\* load_audio without its try block: the exception of librosa.load leaves
\* the method (recorded by its name in place of a message)
load_audio_outcome_no_try(file) ==
    IF file.ok
    THEN [audio_data |-> "loaded", duration |-> file.duration,
          channels |-> file.channels,
          result |-> [success |-> TRUE, message |-> "Loaded successfully",
                      count |-> 0]]
    ELSE [audio_data |-> audio_data, duration |-> duration,
          channels |-> channels,
          result |-> [success |-> FALSE, message |-> "FileNotFoundError",
                      count |-> 0]]

\* what load_audio(filepath) leaves in the processor and returns
load_audio_outcome(file) ==
    IF file.ok
    THEN [audio_data |-> "loaded", duration |-> file.duration,
          channels |-> file.channels,
          result |-> [success |-> TRUE, message |-> "Loaded successfully",
                      count |-> 0]]
    ELSE \* librosa.load raises before anything is assigned
         [audio_data |-> audio_data, duration |-> duration,
          channels |-> channels,
          result |-> [success |-> FALSE, message |-> "Error loading audio",
                      count |-> 0]]

(***************************************************************************)
(* AudioProcessor.detect_silence                                           *)
(***************************************************************************)
\* hop_length / sample_rate: the time from one RMS frame to the next, in ms
HopTime == 10

\* librosa.frames_to_time(i): the time of frame i (0-based)
frames_to_time(i) == i * HopTime

\* one pass of the loop over (is_silent, time); st carries in_silence,
\* silence_start and silent_regions
detect_step(i, c, st) ==
    LET is_silent == c.silent_frames[i + 1]
        time == frames_to_time(i)
    IN  IF is_silent /\ ~st.in_silence
        THEN [st EXCEPT !.silence_start = time, !.in_silence = TRUE]
        ELSE IF ~is_silent /\ st.in_silence
        THEN [st EXCEPT !.in_silence = FALSE,
                        !.silent_regions =
                            IF time - st.silence_start >= c.min_silence_duration
                            THEN Append(@, <<st.silence_start, time>>)
                            ELSE @]
        ELSE st

RECURSIVE detect_loop(_, _, _)
\* "for i, (is_silent, time) in enumerate(zip(silent_frames, times))"
detect_loop(i, c, st) ==
    IF i >= Len(c.silent_frames) THEN st
    ELSE detect_loop(i + 1, c, detect_step(i, c, st))

\* detect_silence without the statements after the loop: a silence the audio
\* ends in is dropped
detect_silence_outcome_no_tail(c) ==
    IF audio_data = NoneValue THEN <<>>
    ELSE detect_loop(0, c, [in_silence |-> FALSE, silence_start |-> 0,
                            silent_regions |-> <<>>]).silent_regions

\* the list detect_silence(threshold_db, c.min_silence_duration) returns;
\* c.silent_frames is rms_db < threshold_db, frame by frame
detect_silence_outcome(c) ==
    IF audio_data = NoneValue THEN <<>>
    ELSE LET st == detect_loop(0, c, [in_silence |-> FALSE, silence_start |-> 0,
                                      silent_regions |-> <<>>])
         IN  IF st.in_silence /\ duration - st.silence_start >= c.min_silence_duration
             THEN Append(st.silent_regions, <<st.silence_start, duration>>)
             ELSE st.silent_regions

\* one detect_silence call with the arguments in call
detect_silence ==
    /\ pc = "ready"
    /\ pc' = "done"
    /\ silent_regions' = detect_silence_outcome(call)
    /\ UNCHANGED <<audio_data, duration, channels, call, folder, writes, result,
                   concat_buffer>>
    /\ UNCHANGED <<mgr_vars, disk_vars, app_vars>>

(***************************************************************************)
(* AudioProcessor.export_splits                                            *)
(***************************************************************************)
DigitChars == <<"0", "1", "2", "3", "4", "5", "6", "7", "8", "9">>

RECURSIVE Digits(_)
Digits(n) ==
    IF n < 10 THEN <<DigitChars[n + 1]>>
    ELSE Digits(n \div 10) \o <<DigitChars[(n % 10) + 1]>>

\* str(n) of an int, as its list of characters
str(n) == IF n < 0 THEN <<"-">> \o Digits(-n) ELSE Digits(n)

\* str.zfill(width) of an unsigned digit string
zfill(s, width) ==
    IF Len(s) >= width THEN s
    ELSE [i \in 1..(width - Len(s)) |-> "0"] \o s

SupportedFormats == {"wav", "flac", "mp3", "ogg"}

\* self.sample_rate of the recordings of the model, in Hz (librosa.load with
\* sr=None keeps the rate of the file)
sample_rate == 100

\* len(self.audio_data): duration = len / sample_rate, times being in ms
NumFrames == (duration * sample_rate) \div 1000

\* int(time * self.sample_rate) for a product held in thousandths of a
\* frame: the fraction is cut off, towards zero
int(x) == IF x >= 0 THEN x \div 1000 ELSE -((-x) \div 1000)

\* the positions audio[start:end] takes from a buffer of n frames: a
\* negative bound counts from the end, a bound outside the buffer is clipped
PySlice(n, start, end) ==
    LET lo == IF start < 0 THEN (IF start + n < 0 THEN 0 ELSE start + n)
              ELSE IF start > n THEN n ELSE start
        hi == IF end < 0 THEN (IF end + n < 0 THEN 0 ELSE end + n)
              ELSE IF end > n THEN n ELSE end
    IN  [j \in 1..(hi - lo) |-> lo + j - 1]

\* f"{filename_prefix}_{split_number}.{output_format}" (one prefix throughout)
FileName(split_number, output_format) ==
    [number |-> split_number, ext |-> output_format]

\* _export_audio(segment, output_path, format, ...): the folder afterwards and
\* whether it raised.  fails: the encoder (sf.write for wav/flac, pydub's
\* export for mp3/ogg) raises on this call.
_export_audio(fold, output_path, format, fails) ==
    IF format \in {"wav", "flac"}
    THEN IF fails
         THEN [folder |-> fold, raised |-> TRUE, wrote |-> FALSE]
         ELSE [folder |-> [fold EXCEPT !.files = @ \cup {output_path}],
               raised |-> FALSE, wrote |-> TRUE]
    ELSE \* temp_wav is written, the bitstream encoder runs, temp_wav is removed
         IF format \in {"mp3", "ogg"}
         THEN IF fails
              THEN [folder |-> [fold EXCEPT !.temps = @ \cup {output_path}],
                    raised |-> TRUE, wrote |-> FALSE]
              ELSE [folder |-> [fold EXCEPT !.files = @ \cup {output_path}],
                    raised |-> FALSE, wrote |-> TRUE]
         ELSE \* neither "mp3" nor "ogg": nothing is encoded
              [folder |-> fold, raised |-> FALSE, wrote |-> FALSE]

\* self.audio_data as its channels, each written as the set of source
\* channels it averages
SourceLayout == [j \in 1..channels |-> {j}]

\* "Convert to mono/stereo as requested": np.mean over the channels, or
\* np.stack of the single channel with itself, or the segment as it is
remix(segment_channels, target) ==
    IF target = 1 /\ channels > 1
    THEN <<UNION Range(segment_channels)>>
    ELSE IF target = 2 /\ channels = 1
    THEN segment_channels \o segment_channels
    ELSE segment_channels

\* one pass of the loop body with the exclusion test after the count: an
\* excluded split takes a number
export_step_counts_excluded(i, c, st) ==
    LET exported_count == st.exported_count + 1
        start_sample == int(c.split_times[i + 1] * sample_rate)
        end_sample == int(c.split_times[i + 2] * sample_rate)
        segment == PySlice(NumFrames, start_sample, end_sample)
        split_number == zfill(str(exported_count), c.num_digits)
        output_path == FileName(split_number, c.output_format)
        e == _export_audio(st.folder, output_path, c.output_format,
                           c.fail_at = exported_count)
    IN  IF In(i, c.excluded_splits)
        THEN [st EXCEPT !.exported_count = exported_count]
        ELSE [exported_count |-> exported_count,
              folder |-> e.folder,
              writes |-> IF e.wrote
                         THEN Append(st.writes, [split |-> i, name |-> output_path,
                                                 interval |-> <<c.split_times[i + 1],
                                                               c.split_times[i + 2]>>,
                                                 segment |-> segment,
                                                 channels |-> remix(SourceLayout, c.channels)])
                         ELSE st.writes,
              raised |-> e.raised]

\* one pass of the loop body without the exclusion test
export_step_no_skip(i, c, st) ==
    LET exported_count == st.exported_count + 1
        start_sample == int(c.split_times[i + 1] * sample_rate)
        end_sample == int(c.split_times[i + 2] * sample_rate)
        segment == PySlice(NumFrames, start_sample, end_sample)
        split_number == zfill(str(exported_count), c.num_digits)
        output_path == FileName(split_number, c.output_format)
        e == _export_audio(st.folder, output_path, c.output_format,
                           c.fail_at = exported_count)
    IN  [exported_count |-> exported_count,
         folder |-> e.folder,
         writes |-> IF e.wrote
                    THEN Append(st.writes, [split |-> i, name |-> output_path,
                                            interval |-> <<c.split_times[i + 1],
                                                          c.split_times[i + 2]>>,
                                            segment |-> segment,
                                            channels |-> remix(SourceLayout, c.channels)])
                    ELSE st.writes,
         raised |-> e.raised]

\* one pass of the body of "for i in range(num_splits)"; st carries
\* exported_count, the folder, the files written and whether _export_audio
\* raised
export_step(i, c, st) ==
    IF In(i, c.excluded_splits) THEN st
    ELSE LET start_time == c.split_times[i + 1]
             end_time == c.split_times[i + 2]
             exported_count == st.exported_count + 1
             start_sample == int(start_time * sample_rate)
             end_sample == int(end_time * sample_rate)
             segment == PySlice(NumFrames, start_sample, end_sample)
             split_number == zfill(str(exported_count), c.num_digits)
             output_path == FileName(split_number, c.output_format)
             e == _export_audio(st.folder, output_path, c.output_format,
                                c.fail_at = exported_count)
         IN  [exported_count |-> exported_count,
              folder |-> e.folder,
              writes |-> IF e.wrote
                         THEN Append(st.writes, [split |-> i, name |-> output_path,
                                                 interval |-> <<start_time, end_time>>,
                                                 segment |-> segment,
                                                 channels |-> remix(SourceLayout, c.channels)])
                         ELSE st.writes,
              raised |-> e.raised]

RECURSIVE export_loop_no_abort(_, _, _)
\* the loop with the error caught inside its body: it goes on after a split
\* failed to encode
export_loop_no_abort(i, c, st) ==
    IF i >= c.num_splits THEN st
    ELSE export_loop_no_abort(i + 1, c, export_step(i, c, st))

RECURSIVE export_loop(_, _, _)
\* "for i in range(num_splits)" from index i on, left when _export_audio raises
export_loop(i, c, st) ==
    IF i >= c.num_splits \/ st.raised THEN st
    ELSE export_loop(i + 1, c, export_step(i, c, st))

\* what export_splits(c.split_times, ..., c.output_format, ...,
\* c.excluded_splits) leaves in the output folder fold and returns; c.fail_at
\* is the encoder call that raises (0: none does)
export_splits_outcome(c, fold) ==
    IF audio_data = NoneValue
    THEN [folder |-> fold, writes |-> writes,
          result |-> [success |-> FALSE, message |-> "No audio loaded",
                      count |-> 0]]
    ELSE LET split_times == sorted(<<0>> \o c.split_times \o <<duration>>)
             num_splits == Len(split_times) - 1
             num_exported == num_splits - Len(c.excluded_splits)
             cc == [split_times |-> split_times,
                    channels |-> c.channels,
                    num_splits |-> num_splits,
                    num_digits |-> Len(str(num_exported)),
                    excluded_splits |-> c.excluded_splits,
                    output_format |-> c.output_format,
                    fail_at |-> c.fail_at]
             st == export_loop(0, cc,
                       [exported_count |-> 0,
                        folder |-> [fold EXCEPT !.exists = TRUE],
                        writes |-> <<>>,
                        raised |-> FALSE])
         IN  [folder |-> st.folder, writes |-> st.writes,
              result |-> IF st.raised
                         THEN [success |-> FALSE,
                               message |-> "Error exporting splits", count |-> 0]
                         ELSE [success |-> TRUE,
                               message |-> "Exported N splits successfully",
                               count |-> num_exported]]

\* one export_splits call with the arguments in call
export_splits ==
    /\ pc = "ready"
    /\ pc' = "done"
    /\ folder' = export_splits_outcome(call, folder).folder
    /\ writes' = export_splits_outcome(call, folder).writes
    /\ result' = export_splits_outcome(call, folder).result
    /\ UNCHANGED <<audio_data, duration, channels, call, concat_buffer,
                   silent_regions>>
    /\ UNCHANGED <<mgr_vars, disk_vars, app_vars>>

(***************************************************************************)
(* AudioProcessor.concat_splits: called by the application                 *)
(* (audio_splitter_app.py, _concat_splits_delayed); modelled from section  *)
(* 4.4 of the specification, step 7 (concatenation mode).                  *)
(***************************************************************************)
\* the buffer is a list of blocks: the trimmed segment of a split, or
\* inserted silence of a duration in ms
SegmentBlock(i) == [kind |-> "segment", split |-> i, trimmed |-> TRUE, ms |-> 0]

SilenceBlock(ms) == [kind |-> "silence", split |-> -1, trimmed |-> FALSE, ms |-> ms]

\* the join with a silence block after every segment, the last included
concat_step_trailing_silence(i, c, buffer) ==
    IF In(i, c.excluded_splits) THEN buffer
    ELSE buffer \o <<SegmentBlock(i), SilenceBlock(c.silence_duration_ms)>>

\* split i joins the buffer: skipped when excluded, else trimmed and
\* appended, after a silence block when a segment precedes it
concat_step(i, c, buffer) ==
    IF In(i, c.excluded_splits) THEN buffer
    ELSE IF buffer = <<>> THEN <<SegmentBlock(i)>>
    ELSE buffer \o <<SilenceBlock(c.silence_duration_ms), SegmentBlock(i)>>

RECURSIVE concat_loop(_, _, _)
\* the included splits from index i on, in split order
concat_loop(i, c, buffer) ==
    IF i >= c.num_splits THEN buffer
    ELSE concat_loop(i + 1, c, concat_step(i, c, buffer))

\* what concat_splits(c.split_times, ..., c.output_format, ...,
\* c.silence_duration_ms, c.excluded_splits) builds, leaves in the output
\* folder fold and returns; c.fail_at = 1: the encoder raises
concat_splits_outcome(c, fold) ==
    IF audio_data = NoneValue
    THEN [folder |-> fold, writes |-> writes, buffer |-> concat_buffer,
          result |-> [success |-> FALSE, message |-> "No audio loaded",
                      count |-> 0]]
    ELSE LET split_times == sorted(<<0>> \o c.split_times \o <<duration>>)
             num_splits == Len(split_times) - 1
             cc == [num_splits |-> num_splits,
                    excluded_splits |-> c.excluded_splits,
                    silence_duration_ms |-> c.silence_duration_ms]
             buffer == concat_loop(0, cc, <<>>)
             output_path == FileName(<<>>, c.output_format)
             e == _export_audio([fold EXCEPT !.exists = TRUE], output_path,
                                c.output_format, c.fail_at = 1)
         IN  [folder |-> e.folder,
              writes |-> IF e.wrote
                         THEN <<[split |-> -1, name |-> output_path]>>
                         ELSE <<>>,
              buffer |-> buffer,
              result |-> IF e.raised
                         THEN [success |-> FALSE,
                               message |-> "Error concatenating splits",
                               count |-> 0]
                         ELSE [success |-> TRUE,
                               message |-> "Concatenated N splits successfully",
                               count |-> Len(SelectSeq(buffer,
                                             LAMBDA b : b.kind = "segment"))]]

\* one concat_splits call with the arguments in call
concat_splits ==
    /\ pc = "ready"
    /\ pc' = "done"
    /\ folder' = concat_splits_outcome(call, folder).folder
    /\ writes' = concat_splits_outcome(call, folder).writes
    /\ concat_buffer' = concat_splits_outcome(call, folder).buffer
    /\ result' = concat_splits_outcome(call, folder).result
    /\ UNCHANGED <<audio_data, duration, channels, call, silent_regions>>
    /\ UNCHANGED <<mgr_vars, disk_vars, app_vars>>

\* inter-segment silence the concatenation dialog offers (1..1000 ms)
SilenceDurations == {1, 500}

\* marker lists handed to export_splits: k evenly spaced markers, the
\* unsorted and duplicate-carrying lists, and markers between two frames and
\* before the start of the audio
ExportMarkerLists ==
    {[i \in 1..k |-> 10 * i] : k \in 0..MaxExportMarkers} \cup MarkerLists
        \cup {<<15, 38>>, <<-10, -20>>}

AscendingLists(S, n) ==
    {sorted(q) : q \in {q \in UNION {[1..k -> S] : k \in 0..n} :
                            \A i, j \in DOMAIN q : i < j => q[i] < q[j]}}

\* exclusion lists handed to export_splits with k markers: what
\* get_excluded_splits returns (ascending, distinct indices of 0..k), and a
\* list with a repeated and one with an out-of-range index
ExportExcludedLists(k) ==
    AscendingLists(0..k, MaxExportExcluded) \cup {<<0, 0>>, <<k + 1>>}

ExportFormats == SupportedFormats \cup {"aac"}

(***************************************************************************)
(* AudioSplitterApp: the handlers that call the engine                     *)
(***************************************************************************)
\* no export or concatenation was started yet.  While its single-shot timer
\* is pending the window-modal progress dialog keeps the window from input;
\* the application is followed up to the end of its first export or
\* concatenation, which changes neither the manager nor the loaded audio.
Idle == pc = "ready"

\* a folder the output dialog names, before anything is written to it
NewFolder == [exists |-> FALSE, files |-> {}, temps |-> {}]

\* _load_audio_delayed without the call of clear_markers
_load_audio_delayed_keeps_markers(file) ==
    /\ Idle
    /\ audio_data' = load_audio_outcome(file).audio_data
    /\ duration' = load_audio_outcome(file).duration
    /\ channels' = load_audio_outcome(file).channels
    /\ result' = load_audio_outcome(file).result
    /\ IF ~load_audio_outcome(file).result.success
       THEN /\ message_box' = "Error"
            /\ UNCHANGED <<mgr_vars, waveform_widget>>
       ELSE \* set_audio_filename, set_audio_duration
            /\ UNCHANGED <<markers, excluded_splits>>
            /\ audio_filename' = file.name
            /\ audio_duration' = load_audio_outcome(file).duration
            /\ op' = "set_audio_duration"
            /\ ret' = NoneValue
            \* set_waveform_data(waveform_data, duration), clear_markers()
            /\ waveform_widget' =
                  [waveform_widget EXCEPT
                      !.duration = load_audio_outcome(file).duration,
                      !.markers = <<>>,
                      !.excluded_splits = <<>>]
            /\ UNCHANGED message_box
    /\ UNCHANGED <<call, pc, folder, writes, concat_buffer, silent_regions>>
    /\ UNCHANGED disk_vars

\* _load_audio_delayed(filename, progress)
_load_audio_delayed(file) ==
    /\ Idle
    /\ audio_data' = load_audio_outcome(file).audio_data
    /\ duration' = load_audio_outcome(file).duration
    /\ channels' = load_audio_outcome(file).channels
    /\ result' = load_audio_outcome(file).result
    /\ IF ~load_audio_outcome(file).result.success
       THEN /\ message_box' = "Error"
            /\ UNCHANGED <<mgr_vars, waveform_widget>>
       ELSE \* clear_markers, set_audio_filename, set_audio_duration
            /\ markers' = <<>>
            /\ excluded_splits' = <<>>
            /\ audio_filename' = file.name
            /\ audio_duration' = load_audio_outcome(file).duration
            /\ op' = "set_audio_duration"
            /\ ret' = NoneValue
            \* set_waveform_data(waveform_data, duration), clear_markers()
            /\ waveform_widget' =
                  [waveform_widget EXCEPT
                      !.duration = load_audio_outcome(file).duration,
                      !.markers = <<>>,
                      !.excluded_splits = <<>>]
            /\ UNCHANGED message_box
    /\ UNCHANGED <<call, pc, folder, writes, concat_buffer, silent_regions>>
    /\ UNCHANGED disk_vars

\* _export_splits without its two checks: the dialog is always shown
_export_splits_unchecked(output_format, fail_at) ==
    /\ Idle
    /\ call' = [split_times |-> <<>>, excluded_splits |-> <<>>,
                output_format |-> output_format, channels |-> 2,
                fail_at |-> fail_at]
    /\ pc' = "export_pending"
    /\ folder' = NewFolder
    /\ writes' = <<>>
    /\ UNCHANGED <<message_box, audio_data, duration, channels, result,
                   concat_buffer, silent_regions>>
    /\ UNCHANGED <<mgr_vars, disk_vars, waveform_widget>>

\* _export_splits(): the two checks, then the export dialog (accepted with
\* output_format; fail_at: the encoder call that will raise) and the timer
_export_splits(output_format, fail_at) ==
    /\ Idle
    /\ IF audio_data = NoneValue
       THEN /\ message_box' = "No Audio"
            /\ UNCHANGED <<call, pc, folder, writes>>
       ELSE IF markers = <<>>
       THEN /\ message_box' = "No Markers"
            /\ UNCHANGED <<call, pc, folder, writes>>
       ELSE /\ call' = [split_times |-> <<>>, excluded_splits |-> <<>>,
                        output_format |-> output_format, channels |-> 2,
                        fail_at |-> fail_at]
            /\ pc' = "export_pending"
            /\ folder' = NewFolder
            /\ writes' = <<>>
            /\ UNCHANGED message_box
    /\ UNCHANGED <<audio_data, duration, channels, result, concat_buffer,
                   silent_regions>>
    /\ UNCHANGED <<mgr_vars, disk_vars, waveform_widget>>

\* _export_splits_delayed(settings, progress): export_splits with the
\* manager's markers and excluded indices
_export_splits_delayed ==
    /\ pc = "export_pending"
    /\ pc' = "done"
    /\ LET c == [call EXCEPT !.split_times = markers,
                             !.excluded_splits = get_excluded_splits]
       IN  /\ call' = c
           /\ folder' = export_splits_outcome(c, folder).folder
           /\ writes' = export_splits_outcome(c, folder).writes
           /\ result' = export_splits_outcome(c, folder).result
           /\ message_box' = IF export_splits_outcome(c, folder).result.success
                             THEN "Success" ELSE "Error"
    /\ UNCHANGED <<audio_data, duration, channels, concat_buffer, silent_regions>>
    /\ UNCHANGED <<mgr_vars, disk_vars, waveform_widget>>

\* _concat_splits(): the same two checks, then the concatenation dialog
\* (accepted with output_format and silence_duration_ms) and the timer
_concat_splits(output_format, silence_duration_ms, fail_at) ==
    /\ Idle
    /\ IF audio_data = NoneValue
       THEN /\ message_box' = "No Audio"
            /\ UNCHANGED <<call, pc, folder, writes>>
       ELSE IF markers = <<>>
       THEN /\ message_box' = "No Markers"
            /\ UNCHANGED <<call, pc, folder, writes>>
       ELSE /\ call' = [split_times |-> <<>>, excluded_splits |-> <<>>,
                        output_format |-> output_format, fail_at |-> fail_at,
                        silence_duration_ms |-> silence_duration_ms]
            /\ pc' = "concat_pending"
            /\ folder' = NewFolder
            /\ writes' = <<>>
            /\ UNCHANGED message_box
    /\ UNCHANGED <<audio_data, duration, channels, result, concat_buffer,
                   silent_regions>>
    /\ UNCHANGED <<mgr_vars, disk_vars, waveform_widget>>

\* _concat_splits_delayed(settings, progress): concat_splits with the
\* manager's markers and excluded indices
_concat_splits_delayed ==
    /\ pc = "concat_pending"
    /\ pc' = "done"
    /\ LET c == [call EXCEPT !.split_times = markers,
                             !.excluded_splits = get_excluded_splits]
       IN  /\ call' = c
           /\ folder' = concat_splits_outcome(c, folder).folder
           /\ writes' = concat_splits_outcome(c, folder).writes
           /\ concat_buffer' = concat_splits_outcome(c, folder).buffer
           /\ result' = concat_splits_outcome(c, folder).result
           /\ message_box' = IF concat_splits_outcome(c, folder).result.success
                             THEN "Success" ELSE "Error"
    /\ UNCHANGED <<audio_data, duration, channels, silent_regions>>
    /\ UNCHANGED <<mgr_vars, disk_vars, waveform_widget>>

\* the encoder call an export is made to fail at (0: none)
AppFails == 0..1

\* formats picked in the output dialogs: a lossless and a lossy one
AppFormats == {"wav", "mp3"}

\* marker files opened in the application: an unreadable one, one with
\* markers and exclusions, one with a malformed exclusion entry
AppDocs ==
    {doc \in JsonDocs :
        \/ ~doc.readable
        \/ doc.excluded_kind = "malformed"
        \/ Len(doc.excluded) = 2}

(***************************************************************************)
(* WaveformWidget and the handlers of its signals                          *)
(***************************************************************************)
\* self.width() of the widget, in pixels
width == 100

\* self.marker_grab_distance = 10  # pixels
marker_grab_distance == 10

\* markers the view is given by clicks (cap of the model)
MaxViewMarkers == 2

\* int(a / b): the fraction is cut off, towards zero
TruncDiv(a, b) == IF a >= 0 THEN a \div b ELSE -((-a) \div b)

\* get_time_at_x(x) at h_zoom = 1.0 and scroll_offset = 0.0 (the positions
\* clicked in the model fall on whole milliseconds)
get_time_at_x(x) ==
    IF waveform_widget.duration = 0 THEN 0
    ELSE LET time == (x * waveform_widget.duration) \div width
         IN  IF time < 0 THEN 0
             ELSE IF time > waveform_widget.duration
             THEN waveform_widget.duration
             ELSE time

\* get_x_at_time(time) at h_zoom = 1.0 and scroll_offset = 0.0
get_x_at_time(time) ==
    IF waveform_widget.duration = 0 THEN 0
    ELSE TruncDiv(time * width, waveform_widget.duration)

\* _get_marker_at_x(x): <<the first marker drawn within the grab distance>>,
\* or <<>> for None
_get_marker_at_x(x) ==
    LET m == waveform_widget.markers
        hits == {i \in DOMAIN m :
                    Abs(get_x_at_time(m[i]) - x) <= marker_grab_distance}
    IN  IF hits = {} THEN <<>>
        ELSE <<m[CHOOSE i \in hits : \A j \in hits : i <= j]>>

\* _get_split_at_position(x, y) for y in the splits lane: <<index>> of the
\* first split of the widget holding the time at x, or <<>> for None
_get_split_at_position(x) ==
    LET time == get_time_at_x(x)
        splits == _get_splits(waveform_widget.markers, waveform_widget.duration)
        hits == {i \in DOMAIN splits :
                    splits[i][1] <= time /\ time <= splits[i][2]}
    IN  IF hits = {} THEN <<>>
        ELSE <<(CHOOSE i \in hits : \A j \in hits : i <= j) - 1>>

\* mousePressEvent(event) with the button pressed, the lane the pointer is
\* in and its x, and the slots its signals call: _on_split_toggled,
\* _on_marker_added, _on_marker_removed
mousePressEvent(button, lane, x) ==
    /\ Idle
    /\ IF button = "left" /\ lane = "splits"
       THEN LET hit == _get_split_at_position(x)
                splits == _get_splits(waveform_widget.markers,
                                      waveform_widget.duration)
            IN  IF hit = <<>>
                THEN UNCHANGED <<mgr_vars, waveform_widget>>
                ELSE LET split_range == splits[hit[1] + 1]
                         toggled ==
                            IF In(split_range, waveform_widget.excluded_splits)
                            THEN ListRemove(waveform_widget.excluded_splits,
                                            split_range)
                            ELSE Append(waveform_widget.excluded_splits,
                                        split_range)
                     IN  /\ Len(toggled) <= MaxExcluded
                         /\ waveform_widget' =
                               [waveform_widget EXCEPT !.excluded_splits = toggled]
                         \* set_excluded_splits_by_ranges(get_excluded_splits())
                         /\ excluded_splits' = toggled
                         /\ op' = "set_excluded_splits_by_ranges"
                         /\ ret' = NoneValue
                         /\ UNCHANGED <<markers, audio_filename, audio_duration>>
       ELSE IF button = "left" /\ lane = "waveform"
       THEN LET time == get_time_at_x(x)
                marker == _get_marker_at_x(x)
            IN  IF marker # <<>>
                THEN /\ waveform_widget' =
                           [waveform_widget EXCEPT !.dragging_marker = marker]
                     /\ UNCHANGED mgr_vars
                ELSE /\ Len(waveform_widget.markers) < MaxViewMarkers
                     /\ waveform_widget' =
                           [waveform_widget EXCEPT
                               !.markers = sorted(Append(@, time))]
                     \* add_marker(time)
                     /\ op' = "add_marker"
                     /\ IF FirstWithin(markers, time, ADD_TOLERANCE) # 0
                        THEN /\ ret' = "False"
                             /\ UNCHANGED markers
                        ELSE /\ markers' = sorted(Append(markers, time))
                             /\ ret' = "True"
                     /\ UNCHANGED <<excluded_splits, audio_filename,
                                    audio_duration>>
       ELSE IF button = "right" /\ lane = "waveform"
       THEN LET marker == _get_marker_at_x(x)
            IN  IF marker = <<>>
                THEN UNCHANGED <<mgr_vars, waveform_widget>>
                ELSE /\ waveform_widget' =
                           [waveform_widget EXCEPT
                               !.markers = ListRemove(@, marker[1])]
                     \* remove_marker(marker, tolerance=0.01)
                     /\ op' = "remove_marker"
                     /\ IF FirstWithin(markers, marker[1], APP_TOLERANCE) # 0
                        THEN /\ markers' =
                                   ListRemove(markers,
                                       markers[FirstWithin(markers, marker[1],
                                                           APP_TOLERANCE)])
                             /\ ret' = "True"
                        ELSE /\ ret' = "False"
                             /\ UNCHANGED markers
                     /\ UNCHANGED <<excluded_splits, audio_filename,
                                    audio_duration>>
       ELSE UNCHANGED <<mgr_vars, waveform_widget>>
    /\ UNCHANGED <<message_box, proc_vars, disk_vars>>

\* mouseMoveEvent(event) while a marker is dragged, and _on_marker_moved
mouseMoveEvent(x) ==
    /\ Idle
    /\ waveform_widget.dragging_marker # <<>>
    /\ LET old_time == waveform_widget.dragging_marker[1]
           new_time == get_time_at_x(x)
           m == waveform_widget.markers
           idx == CHOOSE i \in DOMAIN m :
                     m[i] = old_time /\ \A j \in 1..(i - 1) : m[j] # old_time
       IN  /\ In(old_time, m)
           /\ waveform_widget' =
                 [waveform_widget EXCEPT
                     !.markers = sorted([m EXCEPT ![idx] = new_time]),
                     !.dragging_marker = <<new_time>>]
           \* move_marker(old_time, new_time, tolerance=0.01)
           /\ op' = "move_marker"
           /\ IF FirstWithin(markers, old_time, APP_TOLERANCE) # 0
              THEN /\ markers' =
                         sorted([markers EXCEPT
                                    ![FirstWithin(markers, old_time,
                                                  APP_TOLERANCE)] = new_time])
                   /\ ret' = "True"
              ELSE /\ ret' = "False"
                   /\ UNCHANGED markers
    /\ UNCHANGED <<excluded_splits, audio_filename, audio_duration>>
    /\ UNCHANGED <<message_box, proc_vars, disk_vars>>

\* mouseReleaseEvent(event) of the left button
mouseReleaseEvent ==
    /\ Idle
    /\ waveform_widget' = [waveform_widget EXCEPT !.dragging_marker = <<>>]
    /\ UNCHANGED <<mgr_vars, message_box, proc_vars, disk_vars>>

\* no marker is being dragged: the buttons and menus are out of reach while
\* the mouse button is held down on the waveform
NotDragging == waveform_widget.dragging_marker = <<>>

\* _clear_markers(), the question answered Yes
_clear_markers ==
    /\ Idle
    /\ NotDragging
    /\ op' = "clear_markers"
    /\ markers' = <<>>
    /\ excluded_splits' = <<>>
    /\ ret' = NoneValue
    /\ waveform_widget' =
          [waveform_widget EXCEPT !.markers = <<>>, !.excluded_splits = <<>>]
    /\ UNCHANGED <<audio_filename, audio_duration>>
    /\ UNCHANGED <<message_box, proc_vars, disk_vars>>

RECURSIVE add_markers_at_middle(_, _)
\* "for start, end in silent_regions: add_marker((start + end) / 2)" on the
\* marker list m
add_markers_at_middle(m, regions) ==
    IF regions = <<>> THEN m
    ELSE LET middle == (regions[1][1] + regions[1][2]) \div 2
         IN  add_markers_at_middle(
                 IF FirstWithin(m, middle, ADD_TOLERANCE) # 0 THEN m
                 ELSE sorted(Append(m, middle)),
                 Tail(regions))

\* _detect_silence_delayed(threshold, min_duration, progress): regions is
\* what detect_silence found in the recording, reply the answer to "Add
\* markers at the middle of each silent region?"
_detect_silence_delayed(regions, reply) ==
    /\ Idle
    /\ NotDragging
    /\ audio_data # NoneValue
    /\ silent_regions' = regions
    /\ IF regions = <<>>
       THEN /\ message_box' = "No Silence Detected"
            /\ UNCHANGED <<mgr_vars, waveform_widget>>
       ELSE /\ message_box' = "Add Markers"
            /\ IF reply = "Yes"
               THEN \* clear_markers, add_marker per region, set_markers
                    /\ op' = "add_marker"
                    /\ markers' = add_markers_at_middle(<<>>, regions)
                    /\ excluded_splits' = <<>>
                    /\ ret' = "True"
                    /\ waveform_widget' =
                          [waveform_widget EXCEPT
                              !.markers = add_markers_at_middle(<<>>, regions)]
                    /\ UNCHANGED <<audio_filename, audio_duration>>
               ELSE UNCHANGED <<mgr_vars, waveform_widget>>
    /\ UNCHANGED <<audio_data, duration, channels, call, pc, folder, writes,
                   result, concat_buffer>>
    /\ UNCHANGED disk_vars

\* _load_markers() with the file chosen holding doc
_load_markers(doc) ==
    /\ Idle
    /\ NotDragging
    /\ LET loaded == load_from_json_outcome(doc)
       IN  /\ markers' = loaded.markers
           /\ excluded_splits' = loaded.excluded_splits
           /\ audio_filename' = loaded.audio_filename
           /\ IF loaded.ret = "False"
              THEN /\ message_box' = "Error"
                   /\ audio_duration' = loaded.audio_duration
                   /\ op' = "load_from_json"
                   /\ ret' = "False"
                   /\ UNCHANGED waveform_widget
              ELSE /\ IF duration > 0
                      THEN /\ audio_duration' = duration
                           /\ op' = "set_audio_duration"
                           /\ ret' = NoneValue
                      ELSE /\ audio_duration' = loaded.audio_duration
                           /\ op' = "load_from_json"
                           /\ ret' = "True"
                   \* set_markers(get_markers()), set_excluded_splits(...)
                   /\ waveform_widget' =
                         [waveform_widget EXCEPT
                             !.markers = loaded.markers,
                             !.excluded_splits = loaded.excluded_splits]
                   /\ message_box' = IF loaded.audio_filename # NoneValue
                                     THEN "Markers Loaded" ELSE message_box
    /\ UNCHANGED <<proc_vars, disk_vars>>

\* formats picked in the export dialog of the application with its view
ViewFormats == {"wav"}

\* x of the pointer in the events of the model, in pixels
ClickX == {0, 12, 100}

\* the lanes below the ruler
Lanes == {"splits", "waveform"}

Buttons == {"left", "right"}

\* lists detect_silence returns for the recordings of the model
SilentRegionLists == {<<>>, <<<<0, 24>>>>}

InitManager ==
    /\ markers = <<>>
    /\ excluded_splits = <<>>
    /\ audio_filename = NoneValue
    /\ audio_duration = 0
    /\ op = "__init__"
    /\ ret = NoneValue

InitProcessor ==
    /\ audio_data = NoneValue
    /\ duration = 0
    /\ channels = 1
    /\ call = [split_times |-> <<>>, excluded_splits |-> <<>>,
               output_format |-> "wav", channels |-> 2, fail_at |-> 0]
    /\ pc = "ready"
    /\ folder = [exists |-> FALSE, files |-> {}, temps |-> {}]
    /\ writes = <<>>
    /\ result = [success |-> FALSE, message |-> "", count |-> 0]
    /\ concat_buffer = <<>>
    /\ silent_regions = <<>>

InitApp ==
    /\ message_box = NoneValue
    /\ waveform_widget = [markers |-> <<>>, excluded_splits |-> <<>>,
                          duration |-> 0, dragging_marker |-> <<>>]

InitDisk ==
    /\ json_file = <<>>
    /\ saved_state = <<>>

Init ==
    /\ InitManager
    /\ InitProcessor
    /\ InitDisk
    /\ InitApp

Next ==
    \/ \E time \in TimeGrid : add_marker(time)
    \/ \E time \in TimeGrid, tolerance \in Tolerances : remove_marker(time, tolerance)
    \/ \E old_time \in TimeGrid, new_time \in TimeGrid, tolerance \in Tolerances :
          move_marker(old_time, new_time, tolerance)
    \/ clear_markers
    \/ \E new_markers \in MarkerLists : set_markers(new_markers)
    \/ \E filename \in Filenames : set_audio_filename(filename)
    \/ \E d \in Durations : set_audio_duration(d)
    \/ \E split_index \in IndexGrid : toggle_split_exclusion(split_index)
    \/ \E excluded_indices \in IndexLists :
          set_excluded_splits_by_indices(excluded_indices)
    \/ \E excluded_ranges \in RangeLists :
          set_excluded_splits_by_ranges(excluded_ranges)
    \/ \E doc \in JsonDocs : load_from_json(doc)

Spec == Init /\ [][Next]_vars

\* A manager driven by add_marker, remove_marker and move_marker only
NextEdit ==
    \/ \E time \in EditGrid : add_marker(time)
    \/ \E time \in EditGrid, tolerance \in Tolerances : remove_marker(time, tolerance)
    \/ \E old_time \in EditGrid, new_time \in EditGrid, tolerance \in Tolerances :
          move_marker(old_time, new_time, tolerance)

SpecEdit == Init /\ [][NextEdit]_vars

\* A manager whose markers are set and moved and whose exclusions are set and
\* toggled
NextExclusion ==
    \/ \E new_markers \in MarkerLists : set_markers(new_markers)
    \/ \E d \in Durations : set_audio_duration(d)
    \/ \E old_time \in TimeGrid, new_time \in TimeGrid, tolerance \in Tolerances :
          move_marker(old_time, new_time, tolerance)
    \/ \E split_index \in IndexGrid : toggle_split_exclusion(split_index)
    \/ \E excluded_indices \in IndexLists :
          set_excluded_splits_by_indices(excluded_indices)
    \/ \E excluded_ranges \in RangeLists :
          set_excluded_splits_by_ranges(excluded_ranges)

SpecExclusion == Init /\ [][NextExclusion]_vars

\* A manager that is set up, saved to the marker file, and the file loaded
\* back, into the same or into a fresh manager
NextJson ==
    \/ \E new_markers \in MarkerLists : set_markers(new_markers)
    \/ \E filename \in Filenames : set_audio_filename(filename)
    \/ \E d \in Durations : set_audio_duration(d)
    \/ \E excluded_ranges \in RangeLists :
          set_excluded_splits_by_ranges(excluded_ranges)
    \/ \E writable \in BOOLEAN : save_to_json(writable)
    \/ __init__
    \/ json_file # <<>> /\ load_from_json(json_file[1])

SpecJson == Init /\ [][NextJson]_vars

\* durations of the audio the processor holds
ProcDurations == {50, 200}

\* One export_splits call on a processor, for every argument list of the
\* input domains
InitExport ==
    /\ InitManager
    /\ InitDisk
    /\ InitApp
    /\ concat_buffer = <<>>
    /\ silent_regions = <<>>
    /\ channels = 1
    /\ pc = "ready"
    /\ folder = [exists |-> FALSE, files |-> {}, temps |-> {}]
    /\ writes = <<>>
    /\ result = [success |-> FALSE, message |-> "", count |-> 0]
    /\ \E loaded \in BOOLEAN :
          IF loaded
          THEN audio_data = "loaded" /\ duration \in ProcDurations
          ELSE audio_data = NoneValue /\ duration = 0
    /\ \E split_times \in ExportMarkerLists, output_format \in ExportFormats :
          \E excluded \in ExportExcludedLists(Len(split_times)),
             fail_at \in 0..(Len(split_times) + 1) :
              call = [split_times |-> split_times, excluded_splits |-> excluded,
                      output_format |-> output_format, channels |-> 2,
                      fail_at |-> fail_at]

NextExport == export_splits

SpecExport == InitExport /\ [][NextExport]_vars

\* channel counts of the recordings: mono, stereo, and one with more
SourceChannels == 1..3

\* channels: 1 for mono, 2 for stereo
TargetChannels == {1, 2}

\* One export_splits call for every pair of source and target channel count
InitRemix ==
    /\ InitManager
    /\ InitDisk
    /\ InitApp
    /\ concat_buffer = <<>>
    /\ silent_regions = <<>>
    /\ pc = "ready"
    /\ folder = NewFolder
    /\ writes = <<>>
    /\ result = [success |-> FALSE, message |-> "", count |-> 0]
    /\ audio_data = "loaded"
    /\ duration \in ProcDurations
    /\ channels \in SourceChannels
    /\ \E split_times \in MarkerLists, output_format \in SupportedFormats,
          target \in TargetChannels, excluded \in {<<>>, <<0>>},
          fail_at \in 0..1 :
          call = [split_times |-> split_times, excluded_splits |-> excluded,
                  output_format |-> output_format, channels |-> target,
                  fail_at |-> fail_at]

NextRemix == export_splits

SpecRemix == InitRemix /\ [][NextRemix]_vars

\* The application: a recording is loaded, markers and exclusions are loaded
\* from marker files and saved, the splits exported or joined
NextApp ==
    \/ \E file \in AudioFiles : _load_audio_delayed(file)
    \/ \E writable \in BOOLEAN : Idle /\ save_to_json(writable)
    \/ \E doc \in AppDocs : Idle /\ load_from_json(doc)
    \/ \E output_format \in AppFormats, fail_at \in AppFails :
          _export_splits(output_format, fail_at)
    \/ _export_splits_delayed
    \/ \E output_format \in AppFormats,
          silence_duration_ms \in SilenceDurations, fail_at \in AppFails :
          _concat_splits(output_format, silence_duration_ms, fail_at)
    \/ _concat_splits_delayed

SpecApp == Init /\ [][NextApp]_vars

\* The application with its waveform view: markers are added, removed and
\* dragged with the mouse, splits toggled in the splits lane, markers cleared,
\* detected from silence and loaded from marker files, recordings loaded, and
\* the splits exported.  One mouse button is held at a time, and the buttons
\* and menus are used while none is.
NextView ==
    \/ \E file \in AudioFiles : NotDragging /\ _load_audio_delayed(file)
    \/ \E button \in Buttons, lane \in Lanes, x \in ClickX :
          NotDragging /\ mousePressEvent(button, lane, x)
    \/ \E x \in ClickX : mouseMoveEvent(x)
    \/ mouseReleaseEvent
    \/ _clear_markers
    \/ \E regions \in SilentRegionLists, reply \in {"Yes", "No"} :
          _detect_silence_delayed(regions, reply)
    \/ \E doc \in AppDocs : _load_markers(doc)
    \/ \E output_format \in ViewFormats, fail_at \in AppFails :
          NotDragging /\ _export_splits(output_format, fail_at)
    \/ _export_splits_delayed

SpecView == Init /\ [][NextView]_vars

\* One concat_splits call on a processor, for every argument list of the
\* input domains
InitConcat ==
    /\ InitManager
    /\ InitDisk
    /\ InitApp
    /\ channels = 1
    /\ pc = "ready"
    /\ folder = [exists |-> FALSE, files |-> {}, temps |-> {}]
    /\ writes = <<>>
    /\ concat_buffer = <<>>
    /\ silent_regions = <<>>
    /\ result = [success |-> FALSE, message |-> "", count |-> 0]
    /\ \E loaded \in BOOLEAN :
          IF loaded
          THEN audio_data = "loaded" /\ duration \in ProcDurations
          ELSE audio_data = NoneValue /\ duration = 0
    /\ \E split_times \in ExportMarkerLists, output_format \in SupportedFormats,
          silence_duration_ms \in SilenceDurations :
          \E excluded \in ExportExcludedLists(Len(split_times)),
             fail_at \in 0..1 :
              call = [split_times |-> split_times, excluded_splits |-> excluded,
                      output_format |-> output_format, fail_at |-> fail_at,
                      silence_duration_ms |-> silence_duration_ms]

NextConcat == concat_splits

SpecConcat == InitConcat /\ [][NextConcat]_vars

\* minimum silence durations: one hop, two hops, two and a half (the
\* application offers 0.1 s to 10 s)
MinDurations == {HopTime, 2 * HopTime, 25}

\* One detect_silence call, for every classification of up to MaxFrames
\* frames; the audio ends at its last frame or up to a hop after it
InitSilence ==
    /\ InitManager
    /\ InitDisk
    /\ InitApp
    /\ channels = 1
    /\ pc = "ready"
    /\ folder = NewFolder
    /\ writes = <<>>
    /\ concat_buffer = <<>>
    /\ silent_regions = <<>>
    /\ result = [success |-> FALSE, message |-> "", count |-> 0]
    /\ \E n \in 1..MaxFrames :
          \E silent_frames \in [1..n -> BOOLEAN],
             min_silence_duration \in MinDurations :
              /\ call = [silent_frames |-> silent_frames,
                         min_silence_duration |-> min_silence_duration]
              /\ \E loaded \in BOOLEAN :
                    IF loaded
                    THEN /\ audio_data = "loaded"
                         /\ duration \in {frames_to_time(n - 1),
                                           frames_to_time(n - 1) + 5}
                    ELSE /\ audio_data = NoneValue
                         /\ duration = 0

NextSilence == detect_silence

SpecSilence == InitSilence /\ [][NextSilence]_vars

(***************************************************************************)
(* Properties                                                              *)
(***************************************************************************)
IsSorted(m) == \A i \in 1..(Len(m) - 1) : m[i] <= m[i + 1]

\* no two entries closer than the 0.01 s tolerance of add_marker
NoTwoWithin(m) ==
    \A i, j \in DOMAIN m : i # j => Abs(m[i] - m[j]) >= ADD_TOLERANCE

\* occurrences of v in m
Count(m, v) == Cardinality({i \in DOMAIN m : m[i] = v})

\* sp is k+1 intervals from 0 to total, each ending where the next starts
SplitsCover(sp, k, total) ==
    /\ Len(sp) = k + 1
    /\ sp[1][1] = 0
    /\ sp[k + 1][2] = total
    /\ \A i \in 1..k : sp[i][2] = sp[i + 1][1]

\* C1 as claimed: for every sorted marker list of length k without two
\* markers within 0.01 s, k = 0 included, _get_splits returns k+1 intervals
\* covering [0, duration] without gap or overlap.
C1_AnyLength ==
    (IsSorted(markers) /\ NoTwoWithin(markers))
        => SplitsCover(_get_splits(markers, audio_duration), Len(markers),
                       audio_duration)

\* C1 amended: for every sorted marker list of length k >= 1 without two
\* markers within 0.01 s, _get_splits returns k+1 intervals, the first
\* starting at 0, the last ending at the duration, each ending where the
\* next starts; for k = 0 it returns the empty list.
C1_Splits ==
    (IsSorted(markers) /\ NoTwoWithin(markers))
        => IF markers = <<>>
           THEN _get_splits(markers, audio_duration) = <<>>
           ELSE SplitsCover(_get_splits(markers, audio_duration), Len(markers),
                            audio_duration)

C1_Witness ==
    /\ Len(markers) >= 2
    /\ IsSorted(markers)
    /\ NoTwoWithin(markers)
    /\ audio_duration > 0

\* the call handed export_splits a loaded buffer, one of the four formats of
\* its docstring and a set of split indices (distinct, each in 0..k)
ValidExport ==
    /\ audio_data = "loaded"
    /\ call.output_format \in SupportedFormats
    /\ \A i \in DOMAIN call.excluded_splits :
          /\ call.excluded_splits[i] \in 0..Len(call.split_times)
          /\ \A j \in DOMAIN call.excluded_splits :
                i # j => call.excluded_splits[i] # call.excluded_splits[j]

\* the number of splits an export of k markers with exclusion set E includes
IncludedCount == Len(call.split_times) + 1 - Len(call.excluded_splits)

\* C2: a successful export_splits call on a loaded buffer with k markers and
\* an exclusion set E of split indices writes exactly k+1-|E| output files.
C2_FileCount ==
    (pc = "done" /\ ValidExport /\ result.success)
        => /\ Cardinality(folder.files) = IncludedCount
           /\ Len(writes) = IncludedCount

C2_Witness ==
    /\ pc = "done"
    /\ ValidExport
    /\ result.success
    /\ Len(call.excluded_splits) = 2
    /\ Cardinality(folder.files) >= 2

\* the number a digit string denotes
RECURSIVE DigitsValue(_)
DigitsValue(s) ==
    IF s = <<>> THEN 0
    ELSE 10 * DigitsValue(SubSeq(s, 1, Len(s) - 1))
         + (CHOOSE d \in 0..9 : DigitChars[d + 1] = s[Len(s)])

\* decimal digits of a count below 1000
DigitWidth(n) == IF n < 10 THEN 1 ELSE IF n < 100 THEN 2 ELSE 3

\* the included split indices of the call, ascending
IncludedSplits ==
    SelectSeq([i \in 1..(Len(call.split_times) + 1) |-> i - 1],
              LAMBDA i : \A j \in DOMAIN call.excluded_splits :
                             call.excluded_splits[j] # i)

\* C3: the files one export_splits call writes are numbered 1, 2, ..., in
\* split order over the included splits only, each number zero-padded to the
\* number of decimal digits of m, the number of included splits, and carry
\* the output format as extension.
C3_Names ==
    (pc = "done" /\ ValidExport)
        => /\ Len(writes) <= IncludedCount
           /\ result.success => Len(writes) = IncludedCount
           /\ \A n \in DOMAIN writes :
                 /\ writes[n].split = IncludedSplits[n]
                 /\ DigitsValue(writes[n].name.number) = n
                 /\ Len(writes[n].name.number) = DigitWidth(IncludedCount)
                 /\ writes[n].name.ext = call.output_format

C3_Witness ==
    /\ pc = "done"
    /\ ValidExport
    /\ result.success
    /\ Len(writes) = 10
    /\ call.excluded_splits = <<0>>
    /\ writes[1].name.number = <<"0", "1">>
    /\ writes[1].split = 1

\* C4: after any sequence of add_marker, remove_marker, move_marker,
\* set_markers, load_from_json and clear_markers calls the marker list is in
\* non-decreasing order.
C4_Sorted == IsSorted(markers)

C4_Witness ==
    /\ op = "load_from_json"
    /\ ret = "True"
    /\ markers = <<5, 100>>

\* C5 as claimed: after any sequence of add_marker, remove_marker and
\* move_marker calls from an empty manager no two markers lie within 0.01 s.
C5_MoveIncluded == NoTwoWithin(markers)

\* C5 amended: add_marker and remove_marker keep the markers free of pairs
\* within 0.01 s, so any sequence of the two from an empty manager does;
\* move_marker, which neither checks nor merges, keeps them so when
\* new_time is at least 0.01 s from every marker other than the one moved.
C5_Unique ==
    [][/\ (NoTwoWithin(markers) /\ op' \in {"add_marker", "remove_marker"})
            => NoTwoWithin(markers')
       /\ \A old_time \in EditGrid, new_time \in EditGrid, tolerance \in Tolerances :
            (/\ NoTwoWithin(markers)
             /\ move_marker(old_time, new_time, tolerance)
             /\ \A i \in DOMAIN markers :
                   \/ Abs(markers[i] - new_time) >= ADD_TOLERANCE
                   \/ /\ Abs(markers[i] - old_time) < tolerance
                      /\ \A h \in 1..(i - 1) : Abs(markers[h] - old_time) >= tolerance)
                => NoTwoWithin(markers')]_vars

C5_Witness ==
    /\ op = "add_marker"
    /\ ret = "False"
    /\ Len(markers) >= 2
    /\ NoTwoWithin(markers)

\* C6: after any sequence of add_marker, remove_marker, move_marker and
\* load_from_json calls every marker t satisfies 0 <= t <= audio_duration.
C6_InRange ==
    \A i \in DOMAIN markers : 0 <= markers[i] /\ markers[i] <= audio_duration

\* C7: add_marker(t) returns False and leaves markers and exclusions as they
\* are when a marker lies within 0.01 s of t (so a second add of the same t
\* changes nothing); otherwise it returns True and the list is the old one
\* with t inserted, one element longer.
C7_AddMarker ==
    [][\A t \in TimeGrid :
          add_marker(t) =>
             /\ excluded_splits' = excluded_splits
             /\ IF \E i \in DOMAIN markers : Abs(markers[i] - t) < ADD_TOLERANCE
                THEN /\ ret' = "False"
                     /\ markers' = markers
                ELSE /\ ret' = "True"
                     /\ Len(markers') = Len(markers) + 1
                     /\ \A v \in TimeGrid :
                           Count(markers', v)
                              = Count(markers, v) + (IF v = t THEN 1 ELSE 0)
             /\ t \in Range(markers) => markers' = markers]_vars

C7_Witness ==
    /\ op = "add_marker"
    /\ ret = "False"
    /\ markers # <<>>
    /\ excluded_splits # <<>>

\* C8: move_marker(oldT, newT, tol) keeps the number of markers: when a
\* marker lies within tol of oldT the first such in list order is replaced
\* by newT and the list re-sorted, without merging, and _get_splits returns
\* k+1 contiguous intervals; when none does it returns False and the list is
\* unchanged.
C8_MoveMarker ==
    [][\A old_time \in EditGrid, new_time \in EditGrid, tolerance \in Tolerances :
          move_marker(old_time, new_time, tolerance) =>
             /\ Len(markers') = Len(markers)
             /\ IF \E i \in DOMAIN markers : Abs(markers[i] - old_time) < tolerance
                THEN LET first == CHOOSE i \in DOMAIN markers :
                                     /\ Abs(markers[i] - old_time) < tolerance
                                     /\ \A h \in 1..(i - 1) :
                                           Abs(markers[h] - old_time) >= tolerance
                     IN  /\ ret' = "True"
                         /\ IsSorted(markers')
                         /\ \A v \in EditGrid :
                               Count(markers', v)
                                  = Count(markers, v)
                                    - (IF v = markers[first] THEN 1 ELSE 0)
                                    + (IF v = new_time THEN 1 ELSE 0)
                         /\ SplitsCover(_get_splits(markers', audio_duration'),
                                        Len(markers), audio_duration')
                ELSE /\ ret' = "False"
                     /\ markers' = markers]_vars

C8_Witness ==
    /\ op = "move_marker"
    /\ ret = "True"
    /\ Len(markers) = 3
    /\ \E i \in 1..2 : markers[i] = markers[i + 1]

\* C9: remove_marker(t, tol) removes the first marker within tol of t, leaves
\* every other marker in place and returns True; without such a marker it
\* returns False and the list is unchanged; it returns True exactly when the
\* marker count went down by one.
C9_RemoveMarker ==
    [][\A t \in EditGrid, tolerance \in Tolerances :
          remove_marker(t, tolerance) =>
             /\ IF \E i \in DOMAIN markers : Abs(markers[i] - t) < tolerance
                THEN LET first == CHOOSE i \in DOMAIN markers :
                                     /\ Abs(markers[i] - t) < tolerance
                                     /\ \A h \in 1..(i - 1) :
                                           Abs(markers[h] - t) >= tolerance
                     IN  /\ ret' = "True"
                         /\ markers' = SubSeq(markers, 1, first - 1)
                                       \o SubSeq(markers, first + 1, Len(markers))
                ELSE /\ ret' = "False"
                     /\ markers' = markers
             /\ (ret' = "True") <=> (Len(markers') = Len(markers) - 1)]_vars

C9_Witness ==
    /\ op = "remove_marker"
    /\ ret = "True"
    /\ Len(markers) = 2

\* C10: clear_markers leaves the marker list and the exclusion list empty and
\* the audio filename and the recorded duration as they were.
C10_Clear ==
    [][op' = "clear_markers" =>
          /\ markers' = <<>>
          /\ excluded_splits' = <<>>
          /\ audio_filename' = audio_filename
          /\ audio_duration' = audio_duration]_vars

C10_Witness ==
    /\ op = "clear_markers"
    /\ markers = <<>>
    /\ excluded_splits = <<>>
    /\ audio_filename = "a.wav"
    /\ audio_duration = 5

\* C12: save_to_json followed by load_from_json of the written file into a
\* fresh manager succeeds and gives the marker list, the exclusion list, the
\* audio filename and the audio duration the saved manager had.
C12_RoundTrip ==
    [][(op = "__init__" /\ json_file # <<>> /\ load_from_json(json_file[1]))
          => /\ ret' = "True"
             /\ <<markers', excluded_splits', audio_filename', audio_duration'>>
                   = saved_state]_vars

C12_Witness ==
    /\ op = "load_from_json"
    /\ ret = "True"
    /\ saved_state = <<markers, excluded_splits, audio_filename, audio_duration>>
    /\ Len(markers) >= 2
    /\ excluded_splits # <<>>
    /\ audio_filename # NoneValue
    /\ audio_duration # 0

\* split_index is not a position of the split list derived from the markers
InvalidIndex(split_index) ==
    \/ split_index < 0
    \/ split_index >= Len(_get_splits(markers, audio_duration))

\* C11: toggle_split_exclusion(i) and is_split_excluded(i) with an index i
\* that is not a position of the derived split list (i >= number of splits,
\* i < 0, any i without markers) return False, leave the exclusion list as it
\* is and do not raise.
C11_InvalidIndex ==
    [][\A i \in IndexGrid :
          (InvalidIndex(i) /\ toggle_split_exclusion(i)) =>
             /\ is_split_excluded(i) = "False"
             /\ ret' = "False"
             /\ excluded_splits' = excluded_splits]_vars

\* m2 holds the elements of m1, each as often
SameElements(m1, m2) ==
    /\ Len(m1) = Len(m2)
    /\ \A v \in Range(m1) \cup Range(m2) : Count(m1, v) = Count(m2, v)

\* C13: load_from_json of a document whose "excluded_splits" is absent or is
\* a legacy index array succeeds, leaves the exclusion list empty and loads
\* the document's markers.
C13_Legacy ==
    [][\A doc \in JsonDocs :
          (/\ doc.readable
           /\ doc.markers_ok
           /\ doc.excluded_kind \in {"absent", "legacy"}
           /\ load_from_json(doc))
             => /\ ret' = "True"
                /\ excluded_splits' = <<>>
                /\ IsSorted(markers')
                /\ SameElements(markers', doc.markers)]_vars

C13_Witness ==
    /\ op = "load_from_json"
    /\ ret = "True"
    /\ excluded_splits = <<>>
    /\ markers = <<5>>
    /\ audio_filename = NoneValue
    /\ audio_duration = 0

\* C14: whenever load_from_json reports failure the marker list, the
\* exclusion list, the audio filename and the audio duration are what they
\* were before the call.
C14_FailureUntouched ==
    [][(op' = "load_from_json" /\ ret' = "False")
          => /\ markers' = markers
             /\ excluded_splits' = excluded_splits
             /\ audio_filename' = audio_filename
             /\ audio_duration' = audio_duration]_vars

\* C15: when encoding the j-th included split fails, export_splits processes
\* no later split, returns (False, "Error exporting splits: ...") and leaves
\* the j-1 files already written in the output folder.
C15_Abort ==
    (/\ pc = "done"
     /\ audio_data = "loaded"
     /\ call.output_format \in SupportedFormats
     /\ call.fail_at \in 1..Len(IncludedSplits))
        => /\ ~result.success
           /\ result.message = "Error exporting splits"
           /\ Len(writes) = call.fail_at - 1
           /\ \A n \in DOMAIN writes : writes[n].split = IncludedSplits[n]
           /\ folder.files = {writes[n].name : n \in DOMAIN writes}
           /\ Cardinality(folder.files) = call.fail_at - 1

C15_Witness ==
    /\ pc = "done"
    /\ audio_data = "loaded"
    /\ call.output_format = "mp3"
    /\ call.fail_at = 3
    /\ Len(IncludedSplits) >= 5
    /\ call.excluded_splits # <<>>
    /\ Cardinality(folder.files) = 2
    /\ ~result.success

\* C16: for a lossy output (mp3 or ogg) the intermediate <output>.temp.wav
\* written by _export_audio is gone once _export_audio has finished, whether
\* the encoding succeeded or raised.
C16_TempRemoved ==
    (pc = "done" /\ call.output_format \in {"mp3", "ogg"})
        => folder.temps = {}

\* C19: concatenating m included splits gives one buffer holding the m
\* trimmed segments in split order with exactly m-1 silence blocks of the
\* configured duration, one between each two consecutive included segments,
\* none before the first or after the last; an excluded split contributes
\* neither a segment nor a silence block.
C19_Concat ==
    (pc = "done" /\ audio_data = "loaded")
        => LET m == Len(IncludedSplits)
           IN  /\ Len(concat_buffer) = IF m = 0 THEN 0 ELSE 2 * m - 1
               /\ \A n \in 1..m :
                     concat_buffer[2 * n - 1] = SegmentBlock(IncludedSplits[n])
               /\ \A n \in 1..(m - 1) :
                     concat_buffer[2 * n] = SilenceBlock(call.silence_duration_ms)

C19_Witness ==
    /\ pc = "done"
    /\ audio_data = "loaded"
    /\ result.success
    /\ call.excluded_splits = <<1, 2>>
    /\ call.silence_duration_ms = 500
    /\ Len(IncludedSplits) = 3
    /\ Len(concat_buffer) = 5
    /\ concat_buffer[3] = SegmentBlock(3)

\* r is a (success, message) pair one of the AudioProcessor methods returns
ExplicitResult(r) ==
    IF r.success
    THEN r.message \in {"Loaded successfully", "Exported N splits successfully",
                        "Concatenated N splits successfully"}
    ELSE r.message \in {"Error loading audio", "No audio loaded",
                        "Error exporting splits", "Error concatenating splits"}

C18_UserError ==
    [][/\ \A output_format \in AppFormats, fail_at \in AppFails :
            ((audio_data = NoneValue \/ markers = <<>>)
                /\ _export_splits(output_format, fail_at))
               => /\ message_box' \in {"No Audio", "No Markers"}
                  /\ pc' = "ready"
                  /\ folder' = folder
                  /\ writes' = writes
                  /\ result' = result
       /\ pc' = "export_pending" => (audio_data' = "loaded" /\ markers' # <<>>)
       /\ (folder'.exists /\ ~folder.exists)
             => (audio_data = "loaded" /\ markers # <<>>)]_vars

C18_Witness ==
    /\ message_box = "No Markers"
    /\ audio_data = "loaded"
    /\ markers = <<>>
    /\ pc = "ready"
    /\ ~folder.exists
    /\ writes = <<>>

\* the maximal runs <<a, b>> of consecutive silent frames (1-based) of the
\* call under way
SilentRuns ==
    LET f == call.silent_frames
        n == Len(f)
    IN  {r \in (1..n) \X (1..n) :
            /\ r[1] <= r[2]
            /\ \A k \in r[1]..r[2] : f[k]
            /\ r[1] = 1 \/ ~f[r[1] - 1]
            /\ r[2] = n \/ ~f[r[2] + 1]}

\* a run as an interval: from the time of its first frame to the time of
\* the first frame after it, or to the end of the audio when none follows
RunInterval(r) ==
    <<frames_to_time(r[1] - 1),
      IF r[2] = Len(call.silent_frames) THEN duration ELSE frames_to_time(r[2])>>

\* the runs that last at least min_silence_duration
KeptRuns ==
    {r \in SilentRuns :
        RunInterval(r)[2] - RunInterval(r)[1] >= call.min_silence_duration}

\* C20: detect_silence returns exactly the maximal runs of consecutive
\* silent frames that last at least min_silence_duration, as an ordered list
\* of non-overlapping (start, end) intervals with start < end, a run open at
\* the last frame ending at the audio's duration; the list is not empty when
\* there is such a run and is empty when no audio is loaded.
C20_SilentRegions ==
    pc = "done" =>
        IF audio_data = NoneValue THEN silent_regions = <<>>
        ELSE /\ Len(silent_regions) = Cardinality(KeptRuns)
             /\ Range(silent_regions) = {RunInterval(r) : r \in KeptRuns}
             /\ \A i \in DOMAIN silent_regions :
                   silent_regions[i][1] < silent_regions[i][2]
             /\ \A i \in 1..(Len(silent_regions) - 1) :
                   silent_regions[i][2] <= silent_regions[i + 1][1]
             /\ KeptRuns # {} => silent_regions # <<>>

C20_Witness ==
    /\ pc = "done"
    /\ audio_data = "loaded"
    /\ call.min_silence_duration = 2 * HopTime
    /\ call.silent_frames[Len(call.silent_frames)]
    /\ Cardinality(SilentRuns) = 2
    /\ Len(silent_regions) = 1
    /\ silent_regions[1][2] = duration
    /\ silent_regions[1][2] - silent_regions[1][1] = 2 * HopTime

\* move_marker(old_time, new_time, tolerance) relocates a marker that bounds
\* split i (its end, or its start) to another time
MovesBoundOf(i, old_time, new_time, tolerance) ==
    /\ FirstWithin(markers, old_time, tolerance) # 0
    /\ FirstWithin(markers, old_time, tolerance) \in {i, i + 1}
    /\ new_time # markers[FirstWithin(markers, old_time, tolerance)]
    /\ move_marker(old_time, new_time, tolerance)

\* C21 as claimed: when split i is excluded and a marker bounding it is moved
\* to a different time, the stored (start, end) pair equals no interval of
\* the split list derived afterwards.
C21_AnyMove ==
    [][(op' = "move_marker" /\ ret' = "True") =>
       \A i \in 0..MaxMarkers :
          is_split_excluded(i) = "True" =>
             \A old_time \in TimeGrid, new_time \in TimeGrid, tolerance \in Tolerances :
                MovesBoundOf(i, old_time, new_time, tolerance)
                   => ~In(_get_splits(markers, audio_duration)[i + 1],
                          _get_splits(markers', audio_duration'))]_vars

\* C21 amended: exclusions are matched by interval value.  When split i is
\* excluded and a marker bounding it is moved to a different time, the moved
\* marker being the only marker at its time and lying neither at 0 nor at
\* the recorded duration, the stored pair equals no interval of the split
\* list derived afterwards: get_excluded_splits and is_split_excluded report
\* a split as excluded only where another stored pair equals it.
C21_MovedExclusion ==
    [][(op' = "move_marker" /\ ret' = "True" /\ excluded_splits # <<>>) =>
       \A i \in 0..MaxMarkers :
          is_split_excluded(i) = "True" =>
             \A old_time \in TimeGrid, new_time \in TimeGrid, tolerance \in Tolerances :
                (/\ FirstWithin(markers, old_time, tolerance) # 0
                 /\ Count(markers, markers[FirstWithin(markers, old_time, tolerance)]) = 1
                 /\ markers[FirstWithin(markers, old_time, tolerance)]
                       \notin {0, audio_duration}
                 /\ MovesBoundOf(i, old_time, new_time, tolerance))
                   => LET pair == _get_splits(markers, audio_duration)[i + 1]
                          others == ListRemove(excluded_splits, pair)
                          splits == _get_splits(markers', audio_duration')
                      IN  /\ ~In(pair, splits)
                          /\ \A n \in DOMAIN get_excluded_splits' :
                                In(splits[get_excluded_splits'[n] + 1], others)
                          /\ \A j \in 0..(Len(splits) - 1) :
                                is_split_excluded(j)' = "True"
                                   => In(splits[j + 1], others)]_vars

C21_Witness ==
    /\ op = "move_marker"
    /\ ret = "True"
    /\ markers = <<0, 100>>
    /\ audio_duration = 0
    /\ excluded_splits = <<<<0, 5>>>>
    /\ get_excluded_splits = <<>>

\* C22: for an index i of the derived split list, toggle_split_exclusion(i)
\* returns True exactly when split i is excluded right after the call and
\* False exactly when it is then included, whatever exclusion list the
\* manager held (toggled, loaded from a file, or set by ranges or indices).
C22_ToggleReports ==
    [][op' = "toggle_split_exclusion" =>
       \A i \in 0..MaxMarkers :
          (/\ i < Len(_get_splits(markers, audio_duration))
           /\ toggle_split_exclusion(i))
             => /\ (ret' = "True") <=> (is_split_excluded(i)' = "True")
                /\ (ret' = "False") <=> (is_split_excluded(i)' = "False")]_vars

\* C23: when export_splits returns success, the count N of its message
\* "Exported N splits successfully" is the number of output files the call
\* wrote to the output folder, for every output_format string and every
\* excluded_splits list.
C23_CountIsFiles ==
    (pc = "done" /\ result.success)
        => /\ result.count = Len(writes)
           /\ result.count = Cardinality(folder.files)

\* the frames of the buffer the n-th file of the call holds
Frames(n) == Range(writes[n].segment)

\* C24: export_splits turns a boundary time into a frame index by one rule,
\* the same for the end of a split and the start of the next; without
\* exclusions and without silence trim the k+1 slices are pairwise disjoint
\* and in order, and together hold every frame from 0 up to the frame index
\* of the duration, none dropped and none twice.
C24_Slices ==
    (/\ pc = "done"
     /\ result.success
     /\ call.output_format \in SupportedFormats
     /\ call.excluded_splits = <<>>)
        => /\ Len(writes) = Len(call.split_times) + 1
           /\ \A n \in DOMAIN writes, m \in DOMAIN writes :
                 n < m => /\ Frames(n) \cap Frames(m) = {}
                          /\ \A f \in Frames(n), g \in Frames(m) : f < g
           /\ \A f \in 0..(int(duration * sample_rate) - 1) :
                 \E n \in DOMAIN writes : f \in Frames(n)

\* C25: whatever the channel count of the source (1 or more) and the
\* target count (1 or 2), every buffer export_splits hands to the encoder
\* has the target number of channels: the average of the source channels
\* for mono, the single channel twice for stereo from mono, the source
\* channels as they are when the counts match.
C25_TargetChannels ==
    pc = "done" =>
       \A n \in DOMAIN writes :
          /\ Len(writes[n].channels) = call.channels
          /\ writes[n].channels =
                IF channels = call.channels THEN SourceLayout
                ELSE IF call.channels = 1 THEN <<1..channels>>
                ELSE <<{1}, {1}>>

\* C26: a successful audio load leaves the manager without markers and
\* without exclusions, with the filename and the duration of the file just
\* loaded; a failed audio load leaves the four fields as they were; a
\* successful load_from_json leaves the markers and the exclusions of the
\* file and nothing of what the manager held before.
C26_Lifecycle ==
    [][/\ \A file \in AudioFiles :
            _load_audio_delayed(file) =>
               IF file.ok
               THEN /\ markers' = <<>>
                    /\ excluded_splits' = <<>>
                    /\ audio_filename' = file.name
                    /\ audio_duration' = file.duration
               ELSE /\ markers' = markers
                    /\ excluded_splits' = excluded_splits
                    /\ audio_filename' = audio_filename
                    /\ audio_duration' = audio_duration
       /\ \A doc \in AppDocs :
            (load_from_json(doc) /\ ret' = "True")
               => /\ IsSorted(markers')
                  /\ SameElements(markers', doc.markers)
                  /\ excluded_splits' = doc.excluded]_vars

C26_Witness ==
    /\ op = "set_audio_duration"
    /\ markers = <<>>
    /\ excluded_splits = <<>>
    /\ audio_filename = "b.wav"
    /\ audio_duration = 200
    /\ saved_state # <<>>
    /\ saved_state[1] # <<>>
    /\ saved_state[2] # <<>>
    /\ saved_state[3] = "a.wav"

\* C27: after every sequence of view events and application actions the
\* marker list of the MarkerManager and the marker list of the WaveformWidget
\* are the same list
C27_SameMarkers == waveform_widget.markers = markers

\* C28: after every sequence of view events and application actions the
\* exclusion list of the MarkerManager and the exclusion list of the
\* WaveformWidget are the same list
C28_SameExclusions == waveform_widget.excluded_splits = excluded_splits

\* C29: in an export started from the application, the interval export_splits
\* cuts for split i is split i of MarkerManager._get_splits()
C29_ExportIntervals ==
    (pc = "done" /\ message_box \in {"Success", "Error"}) =>
       \A n \in DOMAIN writes :
          /\ writes[n].split < Len(_get_splits(markers, audio_duration))
          /\ writes[n].interval =
                _get_splits(markers, audio_duration)[writes[n].split + 1]

\* the methods that edit the marker list
MarkerEdits == {"add_marker", "remove_marker", "move_marker", "set_markers"}

\* C30: add_marker, remove_marker, move_marker and set_markers leave the
\* stored exclusion list as it was, and in every state each stored pair that
\* is a split of the current markers is reported by is_split_excluded and
\* get_excluded_splits, whatever the markers were before
C30_ExclusionsKept ==
    /\ [][op' \in MarkerEdits => excluded_splits' = excluded_splits]_vars
    /\ [](\A i \in 0..MaxMarkers :
            (/\ i < Len(_get_splits(markers, audio_duration))
             /\ In(_get_splits(markers, audio_duration)[i + 1], excluded_splits))
               => /\ is_split_excluded(i) = "True"
                  /\ In(i, get_excluded_splits))

\* add_marker(0.005) on a manager without markers that holds the pair
\* (0, 0.005): the pair was no split before the call and is split 0 after it
C30_Witness ==
    /\ op = "add_marker"
    /\ ret = "True"
    /\ markers = <<5>>
    /\ excluded_splits = <<<<0, 5>>>>
    /\ get_excluded_splits = <<0>>
    /\ is_split_excluded(0) = "True"

====
